---- MODULE Spec2Model ----
(***************************************************************************)
(* Model of scraper/step1_fixtures.py: the daily date generator, the file  *)
(* cache (_load_file_from_cache / _save_to_cache), TokenCapture, the token *)
(* acquisition _fetch_token_via_playwright and the authenticated fetch     *)
(* _fetch_json_payload.                                                    *)
(***************************************************************************)
EXTENDS Integers, Sequences, FiniteSets, TLC

(***************************************************************************)
(* Bounds                                                                  *)
(***************************************************************************)
\* longest date range (in days after start) the consumer asks for
MaxSpan == 3
\* how many times the consumer iterates one generator object
MaxPasses == 2
\* most entries of a cached JSON document
MaxItems == 1
\* most requests the page emits while a TokenCapture is attached
MaxRequests == 3
\* most requests the page emits during one _fetch_token_via_playwright
MaxEmitted == 2
\* most fetches one run makes
MaxFetches == 2

(***************************************************************************)
(* datetime: the proleptic Gregorian calendar of the standard library      *)
(***************************************************************************)
MINYEAR == 1
MAXYEAR == 9999

Date(y, m, d) == [year |-> y, month |-> m, day |-> d]

NoDate == Date(0, 0, 0)

IsLeap(y) == y % 4 = 0 /\ (y % 100 # 0 \/ y % 400 = 0)

DAYS_IN_MONTH == <<31, 28, 31, 30, 31, 30, 31, 31, 30, 31, 30, 31>>

DAYS_BEFORE_MONTH == <<0, 31, 59, 90, 120, 151, 181, 212, 243, 273, 304, 334>>

DaysInMonth(y, m) == IF m = 2 /\ IsLeap(y) THEN 29 ELSE DAYS_IN_MONTH[m]

DaysBeforeYear(y) ==
    (y - 1) * 365 + ((y - 1) \div 4) - ((y - 1) \div 100) + ((y - 1) \div 400)

DaysBeforeMonth(y, m) ==
    DAYS_BEFORE_MONTH[m] + (IF m > 2 /\ IsLeap(y) THEN 1 ELSE 0)

\* date.toordinal(): 0001-01-01 is day 1
ymd2ord(dt) ==
    DaysBeforeYear(dt.year) + DaysBeforeMonth(dt.year, dt.month) + dt.day

MAXORDINAL == 3652059

\* date.fromordinal()
ord2ymd(ordinal) ==
    LET n0   == ordinal - 1
        n400 == n0 \div 146097
        r400 == n0 % 146097
        n100 == r400 \div 36524
        r100 == r400 % 36524
        n4   == r100 \div 1461
        r4   == r100 % 1461
        n1   == r4 \div 365
        n    == r4 % 365
        y    == n400 * 400 + 1 + n100 * 100 + n4 * 4 + n1
    IN  IF n1 = 4 \/ n100 = 4
        THEN Date(y - 1, 12, 31)
        ELSE LET leapyear == n1 = 3 /\ (n4 # 24 \/ n100 = 3)
                 leapadd(mm) == IF mm > 2 /\ leapyear THEN 1 ELSE 0
                 m0 == (n + 50) \div 32
                 p0 == DAYS_BEFORE_MONTH[m0] + leapadd(m0)
                 m  == IF p0 > n THEN m0 - 1 ELSE m0
                 p  == DAYS_BEFORE_MONTH[m] + leapadd(m)
             IN  Date(y, m, n - p + 1)

\* the text of a date argument: fmt says whether it has the ISO shape
\* YYYY-MM-DD, y/m/d are the numbers its three fields spell
Text(f, y, m, d) == [fmt |-> f, y |-> y, m |-> m, d |-> d]

\* datetime.fromisoformat without the day-of-month range check
ParsesOk_NoDayCheck(s) ==
    /\ s.fmt
    /\ s.y >= MINYEAR /\ s.y <= MAXYEAR
    /\ s.m >= 1 /\ s.m <= 12

\* datetime.fromisoformat accepts the text
ParsesOk(s) ==
    /\ s.fmt
    /\ s.y >= MINYEAR /\ s.y <= MAXYEAR
    /\ s.m >= 1 /\ s.m <= 12
    /\ s.d >= 1 /\ s.d <= DaysInMonth(s.y, s.m)

\* datetime.fromisoformat(s) when it does not raise ValueError
fromisoformat(s) == Date(s.y, s.m, s.d)

\* datetime comparison looking at the year only
DateLE_YearOnly(a, b) == a.year <= b.year

\* datetime comparison: field by field
DateLE(a, b) ==
    \/ a.year < b.year
    \/ a.year = b.year /\ a.month < b.month
    \/ a.year = b.year /\ a.month = b.month /\ a.day <= b.day

\* current_date + timedelta(days=1) is defined (no OverflowError)
AddDayOk(dt) == ymd2ord(dt) + 1 <= MAXORDINAL

\* current_date + timedelta(days=1)
AddDay(dt) == ord2ymd(ymd2ord(dt) + 1)

\* current_date.strftime("%Y-%m-%d"), as the date the text spells
strftime(dt) == Text(TRUE, dt.year, dt.month, dt.day)

(***************************************************************************)
(* State                                                                   *)
(***************************************************************************)
VARIABLES
    \* _generate_daily_date_strings: arguments, generator frame and consumer
    start_date_string, end_date_string,
    gen_state,      \* "none", "created", "suspended", "done" or "raised"
    range_end, current_date,
    gen_error,      \* the exception that left the generator, if any
    yielded,        \* what the consumer received in its current loop
    prior,          \* how many elements earlier loops over this object got
    passes,         \* loops the consumer has started over this object
    \* the cache directory and the actors calling the cache functions
    fs,             \* path -> [exists, data]: the files under CACHE_DIR
    pc,             \* actor -> "idle", "writing" (in _save_to_cache, file
                    \* open) or "reading" (in _load_file_from_cache, after
                    \* exists())
    body,           \* actor -> the key of its current call
    data,           \* actor -> the document it is saving
    pos,            \* actor -> how many chunks it has passed to its file
    detached,       \* actor -> its open file has been unlinked
    result,         \* what the step just taken returned, when it was a
                    \* return of _load_file_from_cache: the actor, the
                    \* key and the value returned or the error raised
    alone,          \* actor -> nobody else touched the file during its save
    last_put,       \* key -> document of the last undisturbed, finished save
    written,        \* keys some actor has ever opened for writing
    \* TokenCapture
    target_domain, captured_token,
    observed,       \* the requests handle_request was called with, in order
    \* _fetch_token_via_playwright
    apc,            \* the await the coroutine is suspended at: "idle",
                    \* "launch", "new_context", "new_page", "goto", "wait",
                    \* "close", "exit" or "done"
    browser,        \* "none", "open" or "closed"
    listener,       \* page.on("request", ...) has been called
    nav,            \* how page.goto ended: "none", "ok", "TimeoutError" or
                    \* "Error"
    pending,        \* the exception travelling through the finally clause
    outcome,        \* what the call returned or raised
    emitted,        \* the requests the page has sent, in order
    \* _fetch_json_payload
    fpc,            \* "idle", "calling" (a GET is under way) or "sleeping"
                    \* (between two attempts)
    freq,           \* the request of the current or last fetch
    calls,          \* GETs issued by the current or last fetch
    responses,      \* the statuses those GETs were answered with
    delays,         \* the delays slept between the attempts
    fout,           \* what the last fetch returned or raised
    fetches         \* fetches begun so far

genVars == <<start_date_string, end_date_string, gen_state, range_end,
             current_date, gen_error, yielded, prior, passes>>

cacheVars == <<fs, pc, body, data, pos, detached, result, alone, last_put,
               written>>

tokenVars == <<target_domain, captured_token, observed>>

acqVars == <<apc, browser, listener, nav, pending, outcome, emitted>>

fetchVars == <<fpc, freq, calls, responses, delays, fout, fetches>>

vars == <<genVars, cacheVars, tokenVars, acqVars, fetchVars>>

(***************************************************************************)
(* Inputs of the date generator                                            *)
(***************************************************************************)
\* the calendar day after the one a text spells (not defined for the last
\* day of MAXYEAR)
NextDay(s) ==
    IF s.d < DaysInMonth(s.y, s.m) THEN Text(TRUE, s.y, s.m, s.d + 1)
    ELSE IF s.m < 12 THEN Text(TRUE, s.y, s.m + 1, 1)
    ELSE Text(TRUE, s.y + 1, 1, 1)

LastDay == Text(TRUE, MAXYEAR, 12, 31)

RECURSIVE Window(_, _)
\* the days from s to k days after s
Window(s, k) ==
    IF k = 0 \/ s = LastDay THEN {s} ELSE {s} \cup Window(NextDay(s), k - 1)

Anchors ==
    { Text(TRUE, 2024, 2, 27), Text(TRUE, 2023, 2, 27),
      Text(TRUE, 1900, 2, 27), Text(TRUE, 2023, 12, 29),
      Text(TRUE, 9999, 12, 29) }

ValidTexts == UNION { Window(a, MaxSpan) : a \in Anchors }

InvalidTexts ==
    { Text(TRUE, 2024, 2, 30), Text(TRUE, 2023, 2, 29),
      Text(TRUE, 2024, 13, 1), Text(TRUE, 2024, 4, 31),
      Text(TRUE, 0, 1, 1), Text(FALSE, 0, 0, 0) }

DateTexts == ValidTexts \cup InvalidTexts

\* s is a calendar day strictly before e
Before(s, e) ==
    s.y * 10000 + s.m * 100 + s.d < e.y * 10000 + e.m * 100 + e.d

\* the pairs of arguments the consumer passes
Requested(s, e) ==
    (s \in ValidTexts /\ e \in ValidTexts /\ ~Before(e, s))
        => e \in Window(s, MaxSpan)

(***************************************************************************)
(* Exceptions                                                              *)
(***************************************************************************)
NoError == [type |-> "none", msg |-> "", chained |-> FALSE]

InvalidFormatError ==
    [type |-> "ValueError", msg |-> "Invalid date format", chained |-> TRUE]

StartAfterEndError ==
    [type |-> "ValueError", msg |-> "Start date is after end date",
     chained |-> FALSE]

OverflowError ==
    [type |-> "OverflowError", msg |-> "date value out of range",
     chained |-> FALSE]

(***************************************************************************)
(* _generate_daily_date_strings                                            *)
(***************************************************************************)
GenInit ==
    /\ start_date_string = Text(FALSE, 0, 0, 0)
    /\ end_date_string = Text(FALSE, 0, 0, 0)
    /\ gen_state = "none"
    /\ range_end = NoDate
    /\ current_date = NoDate
    /\ gen_error = NoError
    /\ yielded = <<>>
    /\ prior = 0
    /\ passes = 0

\* calling the generator function: binds the arguments and returns a
\* generator object; no statement of the body runs
Call(s, e) ==
    /\ Requested(s, e)
    /\ start_date_string' = s
    /\ end_date_string' = e
    /\ gen_state' = "created"
    /\ range_end' = NoDate
    /\ current_date' = NoDate
    /\ gen_error' = NoError
    /\ yielded' = <<>>
    /\ prior' = 0
    /\ passes' = 1
    /\ UNCHANGED <<cacheVars, tokenVars, acqVars, fetchVars>>

\* the first next(): the body runs from its top to the first yield or raise
NextFirst ==
    /\ gen_state = "created"
    /\ UNCHANGED <<start_date_string, end_date_string, prior, passes>>
    /\ IF ~(ParsesOk(start_date_string) /\ ParsesOk(end_date_string))
       THEN /\ gen_state' = "raised"
            /\ gen_error' = InvalidFormatError
            /\ UNCHANGED <<range_end, current_date, yielded>>
       ELSE LET rs == fromisoformat(start_date_string)
                re == fromisoformat(end_date_string)
            IN  IF ~DateLE(rs, re)
                THEN /\ gen_state' = "raised"
                     /\ gen_error' = StartAfterEndError
                     /\ UNCHANGED <<range_end, current_date, yielded>>
                ELSE /\ range_end' = re
                     /\ current_date' = rs
                     /\ gen_error' = NoError
                     /\ IF DateLE(rs, re)
                        THEN /\ gen_state' = "suspended"
                             /\ yielded' = Append(yielded, strftime(rs))
                        ELSE /\ gen_state' = "done"
                             /\ UNCHANGED yielded
    /\ UNCHANGED <<cacheVars, tokenVars, acqVars, fetchVars>>

\* a later next(): the body resumes after the yield, advances one day and
\* runs to the next yield, to the end of the loop, or to an exception
NextResume ==
    /\ gen_state = "suspended"
    /\ UNCHANGED <<start_date_string, end_date_string, range_end, prior,
                   passes>>
    /\ IF ~AddDayOk(current_date)
       THEN /\ gen_state' = "raised"
            /\ gen_error' = OverflowError
            /\ UNCHANGED <<current_date, yielded>>
       ELSE LET nd == AddDay(current_date)
            IN  /\ current_date' = nd
                /\ gen_error' = NoError
                /\ IF DateLE(nd, range_end)
                   THEN /\ gen_state' = "suspended"
                        /\ yielded' = Append(yielded, strftime(nd))
                   ELSE /\ gen_state' = "done"
                        /\ UNCHANGED yielded
    /\ UNCHANGED <<cacheVars, tokenVars, acqVars, fetchVars>>

\* another loop over the same object that runs the body from its top again
Reiterate_Restart ==
    /\ gen_state \in {"suspended", "done", "raised"}
    /\ passes < MaxPasses
    /\ passes' = passes + 1
    /\ prior' = prior + Len(yielded)
    /\ yielded' = <<>>
    /\ gen_state' = "created"
    /\ gen_error' = NoError
    /\ UNCHANGED <<start_date_string, end_date_string, range_end,
                   current_date>>
    /\ UNCHANGED <<cacheVars, tokenVars, acqVars, fetchVars>>

\* the consumer starts another loop over the same generator object (iter()
\* of a generator is the generator itself, its frame is not reset); on a
\* finished generator next() raises StopIteration at once
Reiterate ==
    /\ gen_state \in {"suspended", "done", "raised"}
    /\ passes < MaxPasses
    /\ passes' = passes + 1
    /\ prior' = prior + Len(yielded)
    /\ yielded' = <<>>
    /\ UNCHANGED <<start_date_string, end_date_string, gen_state, range_end,
                   current_date, gen_error>>
    /\ UNCHANGED <<cacheVars, tokenVars, acqVars, fetchVars>>

GenNext ==
    \/ \E s \in DateTexts, e \in DateTexts : Call(s, e)
    \/ NextFirst
    \/ NextResume
    \/ Reiterate

(***************************************************************************)
(* json.dump / json.load on the cached documents.  A text is a sequence of *)
(* characters.                                                             *)
(***************************************************************************)
\* the keys (as texts) and the values of the documents that get cached
DocKeys == {<<"a">>, <<"b">>}

DocValues == {1}

\* a Python dict: its items <<key, value>> in insertion order, keys distinct
IsDict(d) == \A i, j \in 1..Len(d) : i # j => d[i][1] # d[j][1]

\* the order in which the cached documents hold their keys
DocKeyOrder == << <<"a">>, <<"b">> >>

Docs ==
    { d \in UNION { [1..n -> DocKeys \X DocValues] : n \in 0..MaxItems } :
        IsDict(d) /\ \A i \in 1..Len(d) : d[i][1] = DocKeyOrder[i] }

\* dict equality: the same keys with the same values, in any order
SameDict(d1, d2) ==
    { d1[i] : i \in 1..Len(d1) } = { d2[i] : i \in 1..Len(d2) }

Digits == <<"0", "1", "2", "3", "4", "5", "6", "7", "8", "9">>

IsDigit(c) == \E i \in 1..10 : Digits[i] = c

DigitValue(c) == (CHOOSE i \in 1..10 : Digits[i] = c) - 1

\* the JSON text of a str: the documents' keys need no escapes
EncodeStr(k) == <<"\"">> \o k \o <<"\"">>

RECURSIVE EncodeInt(_)
\* the JSON text of a non-negative int
EncodeInt(v) ==
    IF v < 10 THEN <<Digits[v + 1]>>
    ELSE EncodeInt(v \div 10) \o <<Digits[(v % 10) + 1]>>

RECURSIVE EncodeItems(_, _)
EncodeItems(d, i) ==
    IF i > Len(d) THEN <<>>
    ELSE (IF i > 1 THEN << <<",", " ">> >> ELSE <<>>)
         \o << EncodeStr(d[i][1]), <<":", " ">>, EncodeInt(d[i][2]) >>
         \o EncodeItems(d, i + 1)

\* json.dump(data, f): the chunks it passes to f.write, in order
iterencode(d) ==
    IF Len(d) = 0 THEN << <<"{", "}">> >>
    ELSE << <<"{">> >> \o EncodeItems(d, 1) \o << <<"}">> >>

RECURSIVE Concat(_)
Concat(chunks) ==
    IF chunks = <<>> THEN <<>> ELSE Head(chunks) \o Concat(Tail(chunks))

\* the text json.dump writes in all
dumps(d) == Concat(iterencode(d))

Parsed(d) == [ok |-> TRUE, doc |-> d]

JSONDecodeError == [ok |-> FALSE, doc |-> <<>>]

Fail == [ok |-> FALSE, val |-> <<>>, next |-> 0]

RECURSIVE SkipWs(_, _)
\* the first position from i on that holds no whitespace
SkipWs(t, i) == IF i <= Len(t) /\ t[i] = " " THEN SkipWs(t, i + 1) ELSE i

RECURSIVE ScanStr(_, _, _)
\* the characters of a string up to its closing quote
ScanStr(t, i, acc) ==
    IF i > Len(t) \/ t[i] = "NUL" THEN Fail
    ELSE IF t[i] = "\"" THEN [ok |-> TRUE, val |-> acc, next |-> i + 1]
    ELSE ScanStr(t, i + 1, Append(acc, t[i]))

\* a JSON string at position i
ParseStr(t, i) ==
    IF i > Len(t) \/ t[i] # "\"" THEN Fail ELSE ScanStr(t, i + 1, <<>>)

RECURSIVE ScanInt(_, _, _)
ScanInt(t, i, acc) ==
    IF i <= Len(t) /\ IsDigit(t[i])
    THEN ScanInt(t, i + 1, acc * 10 + DigitValue(t[i]))
    ELSE [ok |-> TRUE, val |-> acc, next |-> i]

\* a JSON integer at position i (no sign, no leading zero)
ParseInt(t, i) ==
    IF i > Len(t) \/ ~IsDigit(t[i]) THEN Fail
    ELSE IF t[i] = "0" /\ i < Len(t) /\ IsDigit(t[i + 1]) THEN Fail
    ELSE ScanInt(t, i, 0)

\* d[k] = v on a dict: a repeated key keeps its place and takes the new value
SetItem(d, k, v) ==
    IF \E i \in 1..Len(d) : d[i][1] = k
    THEN [i \in 1..Len(d) |-> IF d[i][1] = k THEN <<k, v>> ELSE d[i]]
    ELSE Append(d, <<k, v>>)

\* the end of the text after the closing brace: only whitespace may follow
ParseEnd(t, i, acc) ==
    IF SkipWs(t, i) > Len(t) THEN Parsed(acc) ELSE JSONDecodeError

RECURSIVE ParseMembers(_, _, _)
\* the members of an object from position i on, acc holding those before
ParseMembers(t, i, acc) ==
    LET k == ParseStr(t, i)
        c == SkipWs(t, k.next)
        v == ParseInt(t, SkipWs(t, c + 1))
        e == SkipWs(t, v.next)
    IN  IF ~k.ok THEN JSONDecodeError
        ELSE IF c > Len(t) \/ t[c] # ":" THEN JSONDecodeError
        ELSE IF ~v.ok THEN JSONDecodeError
        ELSE IF e > Len(t) THEN JSONDecodeError
        ELSE IF t[e] = "}" THEN ParseEnd(t, e + 1, SetItem(acc, k.val, v.val))
        ELSE IF t[e] = ","
        THEN ParseMembers(t, SkipWs(t, e + 1), SetItem(acc, k.val, v.val))
        ELSE JSONDecodeError

\* json.load(f): parses the whole text of the file (an object with string
\* keys and integer values; the cached files hold no other JSON)
json_load(t) ==
    LET i == SkipWs(t, 1)
        j == SkipWs(t, i + 1)
    IN  IF i > Len(t) \/ t[i] # "{" THEN JSONDecodeError
        ELSE IF j <= Len(t) /\ t[j] = "}" THEN ParseEnd(t, j + 1, <<>>)
        ELSE ParseMembers(t, j, <<>>)

(***************************************************************************)
(* The cache directory                                                     *)
(***************************************************************************)
\* keys that are plain names
Keys == {"fixtures", "races"}

\* keys that hold a path separator
PathKeys == {"./races"}

AllKeys == Keys \cup PathKeys

\* the characters of a key
KeyText(k) ==
    CASE k = "fixtures" -> <<"f", "i", "x", "t", "u", "r", "e", "s">>
      [] k = "races" -> <<"r", "a", "c", "e", "s">>
      [] k = "./races" -> <<".", "/", "r", "a", "c", "e", "s">>
      [] OTHER -> <<>>

Procs == {"p1", "p2"}

CACHE_DIR == "DEFAULT_CACHE_DIR"

RECURSIVE Split(_, _, _)
\* the pieces of text t from position i on that "/" separates, cur being
\* the piece begun so far
Split(t, i, cur) ==
    IF i > Len(t) THEN <<cur>>
    ELSE IF t[i] = "/" THEN <<cur>> \o Split(t, i + 1, <<>>)
    ELSE Split(t, i + 1, Append(cur, t[i]))

\* the parts pathlib keeps of a path text: empty pieces and "." are dropped
Parts(t) ==
    SelectSeq(Split(t, 1, <<>>), LAMBDA c : c # <<>> /\ c # <<".">>)

\* PurePath.__truediv__: dir / t; an absolute t replaces dir
truediv(dir, t) ==
    IF Len(t) > 0 /\ t[1] = "/" THEN <<"/">> \o Parts(t)
    ELSE <<dir>> \o Parts(t)

\* CACHE_DIR / f"{body}.json" for every key, and for the body "" of an
\* actor that is in no call
CachedFiles ==
    [k \in AllKeys \cup {""} |->
        truediv(CACHE_DIR, KeyText(k) \o <<".", "j", "s", "o", "n">>)]

\* ".json" in place of f"{body}.json": the same file name for every key
cached_file_Literal(k) == CachedFiles[""]

\* CACHE_DIR / f"{body}.json"
cached_file(k) == CachedFiles[k]

Paths == { cached_file(k) : k \in AllKeys }

NoFile == [exists |-> FALSE, content |-> <<>>]

\* open(cached_file, "a") in place of "w": creates the file, keeps its text
open_a(f) == [exists |-> TRUE, content |-> f.content]

\* open(cached_file, "w"): creates the file or truncates it to nothing
open_w(f) == [exists |-> TRUE, content |-> <<>>]

NUL == "NUL"

\* write(text) at an offset of a file: overwrites what is there, extends
\* the file, and fills a gap between its end and the offset with NULs
WriteAt(content, offset, text) ==
    LET n == Len(text)
        newlen == IF Len(content) > offset + n THEN Len(content)
                  ELSE offset + n
    IN  [i \in 1..newlen |->
            IF i > offset /\ i <= offset + n THEN text[i - offset]
            ELSE IF i <= Len(content) THEN content[i]
            ELSE NUL]

NoPut == [ok |-> FALSE, doc |-> <<>>]

NoResult == [kind |-> "none", proc |-> "", body |-> "", doc |-> <<>>]

CacheInit ==
    /\ fs = [f \in Paths |-> NoFile]
    /\ pc = [p \in Procs |-> "idle"]
    /\ body = [p \in Procs |-> ""]
    /\ data = [p \in Procs |-> <<>>]
    /\ pos = [p \in Procs |-> 0]
    /\ detached = [p \in Procs |-> FALSE]
    /\ result = NoResult
    /\ alone = [p \in Procs |-> FALSE]
    /\ last_put = [k \in AllKeys |-> NoPut]
    /\ written = {}

\* the chunks json.dump writes for each document, and the offset in the
\* file after each number of chunks
Chunks == [d \in Docs |-> iterencode(d)]

Offsets ==
    [d \in Docs |->
        [n \in 0..Len(Chunks[d]) |-> Len(Concat(SubSeq(Chunks[d], 1, n)))]]

\* the actors other than p that hold the file of key k open for writing
Writers(p, k) ==
    { q \in Procs \ {p} :
        /\ pc[q] = "writing"
        /\ cached_file(body[q]) = cached_file(k)
        /\ ~detached[q] }

\* _save_to_cache(body, data), up to the open: the file is created or
\* truncated and the actor holds it open at offset 0
SaveOpen(p, k, d) ==
    /\ pc[p] = "idle"
    /\ fs' = [fs EXCEPT ![cached_file(k)] = open_w(@)]
    /\ pc' = [pc EXCEPT ![p] = "writing"]
    /\ body' = [body EXCEPT ![p] = k]
    /\ data' = [data EXCEPT ![p] = d]
    /\ pos' = [pos EXCEPT ![p] = 0]
    /\ detached' = [detached EXCEPT ![p] = FALSE]
    /\ result' = NoResult
    /\ alone' = [q \in Procs |->
                    IF q = p THEN Writers(p, k) = {}
                    ELSE IF q \in Writers(p, k) THEN FALSE ELSE alone[q]]
    /\ last_put' = [last_put EXCEPT ![k] = NoPut]
    /\ written' = written \cup {k}
    /\ UNCHANGED <<genVars, tokenVars, acqVars, fetchVars>>

\* _save_to_cache: the next chunk of json.dump reaches the file (the buffered
\* writer may pass the chunks on one at a time or several together; several
\* together is a run of these steps); with the last chunk the with block
\* closes the file and the function returns
SaveWrite(p) ==
    /\ pc[p] = "writing"
    /\ LET chunks == Chunks[data[p]]
           f == cached_file(body[p])
       IN  /\ fs' = IF detached[p] THEN fs
                    ELSE [fs EXCEPT ![f].content =
                            WriteAt(@, Offsets[data[p]][pos[p]],
                                    chunks[pos[p] + 1])]
           /\ IF pos[p] + 1 = Len(chunks)
              THEN /\ pc' = [pc EXCEPT ![p] = "idle"]
                   /\ body' = [body EXCEPT ![p] = ""]
                   /\ data' = [data EXCEPT ![p] = <<>>]
                   /\ pos' = [pos EXCEPT ![p] = 0]
                   /\ detached' = [detached EXCEPT ![p] = FALSE]
                   /\ alone' = [alone EXCEPT ![p] = FALSE]
                   /\ last_put' =
                        IF alone[p] /\ ~detached[p]
                        THEN [last_put EXCEPT
                                ![body[p]] = [ok |-> TRUE, doc |-> data[p]]]
                        ELSE last_put
              ELSE /\ pos' = [pos EXCEPT ![p] = pos[p] + 1]
                   /\ UNCHANGED <<pc, body, data, detached, alone, last_put>>
    /\ result' = NoResult
    /\ UNCHANGED written
    /\ UNCHANGED <<genVars, tokenVars, acqVars, fetchVars>>

\* the actor dies inside _save_to_cache, after the open and before the close:
\* what it had not yet passed to the file is lost, the file stays as it is
Crash(p) ==
    /\ pc[p] = "writing"
    /\ pc' = [pc EXCEPT ![p] = "idle"]
    /\ body' = [body EXCEPT ![p] = ""]
    /\ data' = [data EXCEPT ![p] = <<>>]
    /\ pos' = [pos EXCEPT ![p] = 0]
    /\ detached' = [detached EXCEPT ![p] = FALSE]
    /\ alone' = [alone EXCEPT ![p] = FALSE]
    /\ result' = NoResult
    /\ UNCHANGED <<fs, last_put, written>>
    /\ UNCHANGED <<genVars, tokenVars, acqVars, fetchVars>>

\* _load_file_from_cache(body) that goes on without asking exists()
LoadCheck_NoExists(p, k) ==
    /\ pc[p] = "idle"
    /\ pc' = [pc EXCEPT ![p] = "reading"]
    /\ body' = [body EXCEPT ![p] = k]
    /\ result' = NoResult
    /\ UNCHANGED <<fs, data, pos, detached, alone, last_put, written>>
    /\ UNCHANGED <<genVars, tokenVars, acqVars, fetchVars>>

\* _load_file_from_cache(body), up to cached_file.exists(): returns None at
\* once when the file is not there
LoadCheck(p, k) ==
    /\ pc[p] = "idle"
    /\ IF fs[cached_file(k)].exists
       THEN /\ pc' = [pc EXCEPT ![p] = "reading"]
            /\ body' = [body EXCEPT ![p] = k]
            /\ result' = NoResult
       ELSE /\ result' = [kind |-> "None", proc |-> p, body |-> k,
                          doc |-> <<>>]
            /\ UNCHANGED <<pc, body>>
    /\ UNCHANGED <<fs, data, pos, detached, alone, last_put, written>>
    /\ UNCHANGED <<genVars, tokenVars, acqVars, fetchVars>>

\* _load_file_from_cache: open(cached_file) and json.load(f)
LoadRead(p) ==
    /\ pc[p] = "reading"
    /\ LET f == fs[cached_file(body[p])]
           loaded == json_load(f.content)
           kind == IF ~f.exists THEN "FileNotFoundError"
                   ELSE IF loaded.ok THEN "doc" ELSE "JSONDecodeError"
       IN  result' = [kind |-> kind, proc |-> p, body |-> body[p],
                      doc |-> IF kind = "doc" THEN loaded.doc ELSE <<>>]
    /\ pc' = [pc EXCEPT ![p] = "idle"]
    /\ body' = [body EXCEPT ![p] = ""]
    /\ UNCHANGED <<fs, data, pos, detached, alone, last_put, written>>
    /\ UNCHANGED <<genVars, tokenVars, acqVars, fetchVars>>

\* the cache is cleared from outside: the file of key k is unlinked; an actor
\* that holds it open keeps writing to the unlinked file
Remove(k) ==
    /\ fs[cached_file(k)].exists
    /\ fs' = [fs EXCEPT ![cached_file(k)] = NoFile]
    /\ detached' = [q \in Procs |->
                      IF pc[q] = "writing"
                         /\ cached_file(body[q]) = cached_file(k) THEN TRUE
                      ELSE detached[q]]
    /\ alone' = [q \in Procs |->
                   IF pc[q] = "writing"
                         /\ cached_file(body[q]) = cached_file(k) THEN FALSE
                   ELSE alone[q]]
    /\ last_put' = [last_put EXCEPT ![k] = NoPut]
    /\ result' = NoResult
    /\ UNCHANGED <<pc, body, data, pos, written>>
    /\ UNCHANGED <<genVars, tokenVars, acqVars, fetchVars>>

\* several actors use the cache at once; nobody dies
CacheNext ==
    \/ \E p \in Procs, k \in Keys, d \in Docs : SaveOpen(p, k, d)
    \/ \E p \in Procs : SaveWrite(p)
    \/ \E p \in Procs, k \in Keys : LoadCheck(p, k)
    \/ \E p \in Procs : LoadRead(p)
    \/ \E k \in Keys : Remove(k)

\* one actor uses the cache, also with keys that hold a path separator
PathNext ==
    \/ \E k \in AllKeys, d \in Docs : SaveOpen("p1", k, d)
    \/ SaveWrite("p1")
    \/ \E k \in AllKeys : LoadCheck("p1", k)
    \/ LoadRead("p1")

\* one actor uses the cache and may die in the middle of a save
CrashNext ==
    \/ \E k \in Keys, d \in Docs : SaveOpen("p1", k, d)
    \/ SaveWrite("p1")
    \/ Crash("p1")
    \/ \E k \in Keys : LoadCheck("p1", k)
    \/ LoadRead("p1")

(***************************************************************************)
(* TokenCapture                                                            *)
(***************************************************************************)
\* API_BASE["api_base"], the target_domain the capture is constructed with
API_DOMAIN == "api09.horseracing.software"

\* a str | None value: text is the string as a sequence of pieces
None == [some |-> FALSE, text |-> <<>>]

Str(t) == [some |-> TRUE, text |-> t]

\* Python truth of a str | None: None and "" are false
Truthy(v) == v.some /\ v.text # <<>>

\* a in b, for strings made of pieces
Contains(b, a) == \E i \in 1..Len(b) : b[i] = a

\* the urls of observed requests: to the API host, to the vendor site, to a
\* third host with the API domain in its query string, an empty url, and a
\* request object without url attribute
RequestUrls ==
    { Str(<<"https://", API_DOMAIN, "/bha/v1/racecourses/">>),
      Str(<<"https://", "www.britishhorseracing.com", "/racing/results/">>),
      Str(<<"https://", "cdn.example.net", "/t?ref=", API_DOMAIN>>),
      Str(<<>>),
      None }

\* the authorization headers of observed requests
AuthHeaders ==
    { None,
      Str(<<>>),
      Str(<<"Bearer ", "tokenA">>),
      Str(<<"Bearer ", "tokenB">>),
      Str(<<"Bearer ">>),
      Str(<<"Basic ", "dXNlcg==">>) }

Requests == [url : RequestUrls, authorization : AuthHeaders]

TokenInit ==
    /\ target_domain = API_DOMAIN
    /\ captured_token = None
    /\ observed = <<>>

\* TokenCapture._get_request_url
get_request_url(request) == request.url

\* TokenCapture._get_auth_header: the request's authorization header, None
\* when it has none
get_auth_header(request) == request.authorization

\* TokenCapture._is_valid_bearer_token: non-empty and scheme-prefixed
is_valid_bearer_token(auth_header) ==
    /\ Len(auth_header.text) = 2
    /\ auth_header.text[1] = "Bearer "

\* the token handle_request stores for a request, None when it stores none
Captures(request) ==
    LET url == get_request_url(request)
        author_header == get_auth_header(request)
    IN  IF ~Truthy(url) \/ ~Contains(url.text, target_domain) THEN None
        ELSE IF ~Truthy(author_header) THEN None
        ELSE IF is_valid_bearer_token(author_header) THEN author_header
        ELSE None

\* TokenCapture.handle_request without the test of captured_token
handle_request_NoLatch(request) ==
    /\ Len(observed) < MaxRequests
    /\ observed' = Append(observed, request)
    /\ captured_token' = IF Captures(request).some THEN Captures(request)
                         ELSE captured_token
    /\ UNCHANGED target_domain
    /\ UNCHANGED <<genVars, cacheVars>>

\* TokenCapture.handle_request(request); it has no await, so it runs as one
\* step of the event loop
handle_request(request) ==
    /\ Len(observed) < MaxRequests
    /\ observed' = Append(observed, request)
    /\ captured_token' =
         IF Truthy(captured_token) THEN captured_token
         ELSE IF Captures(request).some THEN Captures(request)
         ELSE captured_token
    /\ UNCHANGED target_domain
    /\ UNCHANGED <<genVars, cacheVars>>

\* TokenCapture.get_token
get_token == captured_token

TokenNext ==
    \E request \in Requests : handle_request(request) /\ UNCHANGED <<acqVars, fetchVars>>

(***************************************************************************)
(* _fetch_token_via_playwright                                             *)
(***************************************************************************)
\* playwright.async_api.Error and its subclass TimeoutError
PlaywrightError ==
    [type |-> "playwright.Error", msg |-> "", chained |-> FALSE]

TimeoutError ==
    [type |-> "playwright.TimeoutError", msg |-> "", chained |-> FALSE]

\* Exception("Failed to capture token"), the failure the specification
\* names TokenCaptureError
TokenCaptureError ==
    [type |-> "Exception", msg |-> "Failed to capture token",
     chained |-> FALSE]

NoOutcome == [kind |-> "none", token |-> None, error |-> NoError]

Return(token) == [kind |-> "return", token |-> token, error |-> NoError]

Raise(error) == [kind |-> "raise", token |-> None, error |-> error]

AcqInit ==
    /\ apc = "idle"
    /\ browser = "none"
    /\ listener = FALSE
    /\ nav = "none"
    /\ pending = NoError
    /\ outcome = NoOutcome
    /\ emitted = <<>>

\* the awaits inside the try block
InTry(p) == p \in {"new_context", "new_page", "goto", "wait"}

\* the try statement without its finally clause
Handler_NoFinally(p) == "exit"

\* where an exception raised by the await at p takes control: to the finally
\* clause when p is inside the try block, else out of the async with block
Handler(p) == IF InTry(p) THEN "close" ELSE "exit"

\* with suppress(TimeoutError)
Suppressed(error) == error = TimeoutError

\* the call: TokenCapture(api_domain) is constructed, the playwright
\* context is entered and chromium.launch is awaited
Acquire ==
    /\ apc = "idle"
    /\ apc' = "launch"
    /\ target_domain' = API_DOMAIN
    /\ captured_token' = None
    /\ observed' = <<>>
    /\ UNCHANGED <<browser, listener, nav, pending, outcome, emitted>>
    /\ UNCHANGED <<genVars, cacheVars, fetchVars>>

\* chromium.launch returns the browser; browser.new_context is awaited
LaunchOk ==
    /\ apc = "launch"
    /\ browser' = "open"
    /\ apc' = "new_context"
    /\ UNCHANGED <<listener, nav, pending, outcome, emitted>>
    /\ UNCHANGED <<genVars, cacheVars, tokenVars, fetchVars>>

\* new_context returns; context.new_page is awaited
NewContextOk ==
    /\ apc = "new_context"
    /\ apc' = "new_page"
    /\ UNCHANGED <<browser, listener, nav, pending, outcome, emitted>>
    /\ UNCHANGED <<genVars, cacheVars, tokenVars, fetchVars>>

\* new_page without the page.on call
NewPageOk_NoListener ==
    /\ apc = "new_page"
    /\ apc' = "goto"
    /\ UNCHANGED <<browser, listener, nav, pending, outcome, emitted>>
    /\ UNCHANGED <<genVars, cacheVars, tokenVars, fetchVars>>

\* new_page returns the page; page.on attaches handle_request and
\* page.goto is awaited
NewPageOk ==
    /\ apc = "new_page"
    /\ listener' = TRUE
    /\ apc' = "goto"
    /\ UNCHANGED <<browser, nav, pending, outcome, emitted>>
    /\ UNCHANGED <<genVars, cacheVars, tokenVars, fetchVars>>

\* the await at p raises a playwright Error
AwaitFails(p) ==
    /\ apc = p
    /\ p \in {"launch", "new_context", "new_page", "goto", "wait"}
    /\ pending' = PlaywrightError
    /\ apc' = Handler(p)
    /\ nav' = IF p = "goto" THEN "Error" ELSE nav
    /\ UNCHANGED <<browser, listener, outcome, emitted>>
    /\ UNCHANGED <<genVars, cacheVars, tokenVars, fetchVars>>

\* page.goto returns; page.wait_for_timeout is awaited
GotoOk ==
    /\ apc = "goto"
    /\ nav' = "ok"
    /\ apc' = "wait"
    /\ UNCHANGED <<browser, listener, pending, outcome, emitted>>
    /\ UNCHANGED <<genVars, cacheVars, tokenVars, fetchVars>>

\* page.goto raises TimeoutError after page_load_timeout_ms
GotoTimeout ==
    /\ apc = "goto"
    /\ nav' = "TimeoutError"
    /\ IF Suppressed(TimeoutError)
       THEN apc' = "wait" /\ pending' = pending
       ELSE apc' = Handler("goto") /\ pending' = TimeoutError
    /\ UNCHANGED <<browser, listener, outcome, emitted>>
    /\ UNCHANGED <<genVars, cacheVars, tokenVars, fetchVars>>

\* page.wait_for_timeout returns after wait_for_request_ms; the finally
\* clause awaits browser.close
WaitElapsed ==
    /\ apc = "wait"
    /\ apc' = "close"
    /\ UNCHANGED <<browser, listener, nav, pending, outcome, emitted>>
    /\ UNCHANGED <<genVars, cacheVars, tokenVars, fetchVars>>

\* browser.close returns; the async with block is left
Close ==
    /\ apc = "close"
    /\ browser' = "closed"
    /\ apc' = "exit"
    /\ UNCHANGED <<listener, nav, pending, outcome, emitted>>
    /\ UNCHANGED <<genVars, cacheVars, tokenVars, fetchVars>>

\* the playwright context has been left: a pending exception propagates,
\* else the token is returned or the capture failure raised
Exit ==
    /\ apc = "exit"
    /\ apc' = "done"
    /\ outcome' =
         IF pending # NoError THEN Raise(pending)
         ELSE IF ~Truthy(get_token) THEN Raise(TokenCaptureError)
         ELSE Return(get_token)
    /\ UNCHANGED <<browser, listener, nav, pending, emitted>>
    /\ UNCHANGED <<genVars, cacheVars, tokenVars, fetchVars>>

\* the page, once its navigation has begun and until the browser is closed,
\* sends a request; the attached handler is called with it
Emit(request) ==
    /\ apc \in {"goto", "wait"} \/ (apc = "close" /\ nav # "none")
    /\ browser = "open"
    /\ Len(emitted) < MaxEmitted
    /\ emitted' = Append(emitted, request)
    /\ IF listener THEN handle_request(request)
       ELSE UNCHANGED <<genVars, cacheVars, tokenVars>>
    /\ UNCHANGED <<apc, browser, listener, nav, pending, outcome>>
    /\ UNCHANGED fetchVars

\* every await of the coroutine ends
Progress ==
    \/ LaunchOk
    \/ NewContextOk
    \/ NewPageOk
    \/ GotoOk
    \/ GotoTimeout
    \/ WaitElapsed
    \/ Close
    \/ Exit

AcquireNext ==
    \/ Acquire
    \/ LaunchOk
    \/ NewContextOk
    \/ NewPageOk
    \/ \E p \in {"launch", "new_context", "new_page", "goto", "wait"} :
          AwaitFails(p)
    \/ GotoOk
    \/ GotoTimeout
    \/ WaitElapsed
    \/ Close
    \/ Exit
    \/ \E request \in Requests : Emit(request)

(***************************************************************************)
(* _fetch_json_payload: the authenticated fetch with retry and cache       *)
(***************************************************************************)
MAX_RETRIES == 3

\* a backoff that does not grow
BACKOFF_FACTOR_One == 2 - 1

BACKOFF_FACTOR == 2

\* the delay before the first retry, in seconds
BASE_DELAY == 1

\* the most GETs of one fetch: the first attempt and MAX_RETRIES retries
MaxAttempts == MAX_RETRIES + 1

RECURSIVE Power(_, _)
Power(b, n) == IF n = 0 THEN 1 ELSE b * Power(b, n - 1)

\* the delay after the failed attempt number attempt (counted from 0)
Delay(attempt) == BASE_DELAY * Power(BACKOFF_FACTOR, attempt)

\* the status of a GET that got no response
TransportError == 0

Statuses == {TransportError, 200, 401, 403, 429, 500, 503}

\* statuses that are retried, 401 and 403 among them
Retryable_WithAuth(status) ==
    status = TransportError \/ status = 429 \/ status \in 500..599
       \/ status \in {401, 403}

\* statuses that are retried: no response, 429 and 5xx
Retryable(status) ==
    status = TransportError \/ status = 429 \/ status \in 500..599

\* bodies of a 200 response: the JSON text of a document, or broken JSON
Bodies == { dumps(d) : d \in Docs } \cup { <<"{">> }

\* a fetch names the endpoint it asks and whether it opts into caching
FetchRequests == [endpoint : Keys, cache : BOOLEAN]

\* the cache key of a request
cache_key(request) == request.endpoint

AuthExpiredError ==
    [type |-> "AuthExpiredError", msg |-> "", chained |-> FALSE]

FetchExhaustedError ==
    [type |-> "FetchExhaustedError", msg |-> "", chained |-> FALSE]

MalformedResponseError ==
    [type |-> "MalformedResponseError", msg |-> "", chained |-> FALSE]

NoFetchOutcome ==
    [kind |-> "none", doc |-> <<>>, error |-> NoError, status |-> -1]

FetchReturn(d) ==
    [kind |-> "return", doc |-> d, error |-> NoError, status |-> -1]

FetchRaise(e, status) ==
    [kind |-> "raise", doc |-> <<>>, error |-> e, status |-> status]

\* _load_file_from_cache(body) run without interruption: the parse of the
\* file, or NoFile when there is none
load_file_from_cache(k) ==
    LET f == fs[cached_file(k)]
    IN  IF f.exists THEN [found |-> TRUE, loaded |-> json_load(f.content)]
        ELSE [found |-> FALSE, loaded |-> JSONDecodeError]

\* a save that writes nothing
save_to_cache_Nothing(k, d) == fs

\* _save_to_cache(body, data) run without interruption: the directory after
\* the open and the whole json.dump
save_to_cache(k, d) ==
    [fs EXCEPT ![cached_file(k)] =
        [exists |-> TRUE,
         content |-> WriteAt(open_w(@).content, 0, dumps(d))]]

FetchInit ==
    /\ fpc = "idle"
    /\ freq = [endpoint |-> "", cache |-> FALSE]
    /\ calls = 0
    /\ responses = <<>>
    /\ delays = <<>>
    /\ fout = NoFetchOutcome
    /\ fetches = 0

cacheRest == <<pc, body, data, pos, detached, result, alone, last_put,
               written>>

\* fetch(request): with caching on and an entry for the key the document is
\* returned at once, else the first GET is issued
Fetch(request) ==
    /\ fpc = "idle"
    /\ fetches < MaxFetches
    /\ fetches' = fetches + 1
    /\ freq' = request
    /\ calls' = 0
    /\ responses' = <<>>
    /\ delays' = <<>>
    /\ LET hit == load_file_from_cache(cache_key(request))
       IN  IF request.cache /\ hit.found
           THEN /\ fpc' = "idle"
                /\ fout' = IF hit.loaded.ok THEN FetchReturn(hit.loaded.doc)
                           ELSE FetchRaise(MalformedResponseError, -1)
           ELSE /\ fpc' = "calling"
                /\ fout' = NoFetchOutcome
    /\ UNCHANGED fs
    /\ UNCHANGED <<cacheRest, genVars, tokenVars, acqVars>>

\* the GET is answered 200 with a body: the parsed document is written to
\* the cache when the request opted in, then returned; a body that is not
\* JSON raises MalformedResponseError
Respond200(text) ==
    /\ fpc = "calling"
    /\ calls' = calls + 1
    /\ responses' = Append(responses, 200)
    /\ fpc' = "idle"
    /\ LET parsed == json_load(text)
       IN  IF parsed.ok
           THEN /\ fs' = IF freq.cache
                         THEN save_to_cache(cache_key(freq), parsed.doc)
                         ELSE fs
                /\ fout' = FetchReturn(parsed.doc)
           ELSE /\ fs' = fs
                /\ fout' = FetchRaise(MalformedResponseError, 200)
    /\ UNCHANGED <<freq, delays, fetches>>
    /\ UNCHANGED <<cacheRest, genVars, tokenVars, acqVars>>

\* the GET is answered with a status other than 200, or not at all: a
\* retryable one is retried after a delay while attempts are left and
\* raises FetchExhaustedError when none is; 401 and 403 raise
\* AuthExpiredError
RespondFailure(status) ==
    /\ fpc = "calling"
    /\ status # 200
    /\ calls' = calls + 1
    /\ responses' = Append(responses, status)
    /\ IF Retryable(status)
       THEN IF calls + 1 < MaxAttempts
            THEN /\ fpc' = "sleeping"
                 /\ delays' = Append(delays, Delay(calls))
                 /\ fout' = fout
            ELSE /\ fpc' = "idle"
                 /\ delays' = delays
                 /\ fout' = FetchRaise(FetchExhaustedError, status)
       ELSE /\ fpc' = "idle"
            /\ delays' = delays
            /\ fout' = FetchRaise(AuthExpiredError, status)
    /\ UNCHANGED <<freq, fetches>>
    /\ UNCHANGED fs
    /\ UNCHANGED <<cacheRest, genVars, tokenVars, acqVars>>

\* the delay is over: the next GET is issued
Wake ==
    /\ fpc = "sleeping"
    /\ fpc' = "calling"
    /\ UNCHANGED <<freq, calls, responses, delays, fout, fetches>>
    /\ UNCHANGED <<cacheVars, genVars, tokenVars, acqVars>>

FetchNext ==
    \/ \E request \in FetchRequests : Fetch(request)
    \/ \E text \in Bodies : Respond200(text)
    \/ \E status \in Statuses : RespondFailure(status)
    \/ Wake

Init == GenInit /\ CacheInit /\ TokenInit /\ AcqInit /\ FetchInit

GenSpec == Init /\ [][GenNext]_vars

CacheSpec == Init /\ [][CacheNext]_vars

CrashSpec == Init /\ [][CrashNext]_vars

PathSpec == Init /\ [][PathNext]_vars

TokenSpec == Init /\ [][TokenNext]_vars

AcquireSpec == Init /\ [][AcquireNext]_vars

FetchSpec == Init /\ [][FetchNext]_vars

\* every await ends: launch, context and page creation, navigation
\* (page_load_timeout_ms), the wait (wait_for_request_ms) and close
AcquireFairSpec == AcquireSpec /\ WF_vars(Progress)

(***************************************************************************)
(* Properties of the date generator                                        *)
(***************************************************************************)
Called == gen_state # "none"

BothValid ==
    start_date_string \in ValidTexts /\ end_date_string \in ValidTexts

ValidRange == BothValid /\ ~Before(end_date_string, start_date_string)

Inverted == BothValid /\ Before(end_date_string, start_date_string)

RECURSIVE Days(_, _)
\* every calendar day from s to e, for s not after e
Days(s, e) == IF s = e THEN <<s>> ELSE <<s>> \o Days(NextDay(s), e)

\* seq runs from s to e, one calendar day at a time
Daily(seq, s, e) ==
    /\ Len(seq) = Len(Days(s, e))
    /\ seq[1] = s
    /\ seq[Len(seq)] = e
    /\ \A i \in 1..(Len(seq) - 1) : seq[i + 1] = NextDay(seq[i])

\* C1: for valid dates with start <= end the generator yields the days from
\* start to end, one day apart, end - start + 1 of them, and then stops
\* (it ends by returning, not by raising)
C1_DailyRangeThenStops ==
    (Called /\ ValidRange) =>
        /\ gen_state # "raised"
        /\ (gen_state = "done" /\ passes = 1) =>
               Daily(yielded, start_date_string, end_date_string)

\* C2: when start is after end the generator fails with the start-after-end
\* error and the consumer never receives an element
C2_InvertedYieldsNothing ==
    (Called /\ Inverted) =>
        /\ yielded = <<>> /\ prior = 0
        /\ gen_state \in {"created", "raised"}
        /\ gen_state = "raised" => gen_error = StartAfterEndError

C2_Witness ==
    /\ Inverted
    /\ gen_state = "raised"
    /\ gen_error = StartAfterEndError

\* C3 as stated: the failure for a malformed date has an error kind other
\* than the kind raised for start > end
C3_DistinctErrorKind ==
    (gen_state = "raised" /\ ~BothValid) =>
        gen_error.type # StartAfterEndError.type

\* C3 amended: a malformed date fails with ValueError, the same kind as the
\* start > end failure, before anything is yielded; the two failures differ
\* in their message and in the chained parse error only
C3_InvalidIsValueError ==
    (Called /\ ~BothValid) =>
        /\ yielded = <<>> /\ prior = 0
        /\ gen_state \in {"created", "raised"}
        /\ gen_state = "raised" =>
              /\ gen_error = InvalidFormatError
              /\ gen_error.type = StartAfterEndError.type
              /\ gen_error.msg # StartAfterEndError.msg

C3_Witness ==
    /\ start_date_string \in ValidTexts
    /\ end_date_string \in InvalidTexts
    /\ gen_state = "raised"
    /\ gen_error = InvalidFormatError

\* C4: a malformed or inverted range has failed as soon as the generator
\* function has been called, before the consumer asks for an element
C4_FailsAtCall ==
    (Called /\ ~ValidRange) => gen_state = "raised"

\* C5 as stated: a later loop over the same produced sequence yields the
\* full sequence from start to end again
C5_Restartable ==
    (ValidRange /\ passes >= 2 /\ gen_state = "done") =>
        yielded = Days(start_date_string, end_date_string)

\* C5 amended: the produced sequence is single-pass; a later loop over the
\* same generator continues after the elements already consumed, so over all
\* loops every day is delivered at most once and in order, and a loop over an
\* exhausted generator yields nothing; only a new call starts at start again
C5_SinglePass ==
    (Called /\ ValidRange) =>
        LET full == Days(start_date_string, end_date_string)
        IN  /\ prior + Len(yielded) <= Len(full)
            /\ yielded = SubSeq(full, prior + 1, prior + Len(yielded))
            /\ gen_state = "done" => prior + Len(yielded) = Len(full)

C5_Witness ==
    /\ ValidRange
    /\ passes = 2
    /\ prior > 0
    /\ yielded # <<>>
    /\ gen_state = "done"

(***************************************************************************)
(* Properties of the cache                                                 *)
(***************************************************************************)
Returned == result.kind # "none"

\* C6: a get of a key whose last put finished undisturbed (no other write to
\* the key during or after it) returns a document equal to the one put
C6_PutThenGet ==
    (Returned /\ last_put[result.body].ok) =>
        /\ result.kind = "doc"
        /\ SameDict(result.doc, last_put[result.body].doc)

C6_Witness ==
    /\ Returned
    /\ last_put[result.body].ok
    /\ result.kind = "doc"
    /\ result.doc # <<>>

\* C7: a get of a key nobody ever wrote returns None: it raises nothing and
\* never gets as far as opening a file
C7_MissReturnsNone ==
    /\ (Returned /\ result.body \notin written) => result.kind = "None"
    /\ \A p \in Procs : pc[p] = "reading" => body[p] \in written

C7_Witness ==
    /\ result.kind = "None"
    /\ result.body \notin written
    /\ \E q \in Procs \ {result.proc} : pc[q] = "writing" /\ pos[q] > 0

\* C8: after a put that died in the middle, a get returns None or a complete
\* document; it never fails to parse
C8_InterruptedPutHarmless ==
    /\ result.kind \in {"none", "None", "doc"}
    /\ result.kind = "doc" => result.doc \in Docs

\* C9: a get never observes a truncated or corrupt file, and whenever no put
\* is in progress on a key its file is the complete document of one writer
C9_NoTornFile ==
    /\ result.kind # "JSONDecodeError"
    /\ \A k \in Keys :
         (fs[cached_file(k)].exists
            /\ \A p \in Procs : ~(pc[p] = "writing" /\ body[p] = k))
         => \E d \in Docs : fs[cached_file(k)].content = dumps(d)

(***************************************************************************)
(* Properties of TokenCapture                                              *)
(***************************************************************************)
\* request i is the first observed request from which a token is captured
FirstQualifying(i) ==
    /\ i \in 1..Len(observed)
    /\ Captures(observed[i]).some
    /\ \A j \in 1..(i - 1) : ~Captures(observed[j]).some

Host(request) ==
    IF request.url.some /\ Len(request.url.text) >= 2
    THEN request.url.text[2] ELSE ""

\* an authorization header that is a bearer scheme followed by a token
WellFormedBearer(header) ==
    /\ header.some
    /\ Len(header.text) = 2
    /\ header.text[1] = "Bearer "

\* a request addressed to the API domain with a bearer authorization header
Qualifying(request) ==
    /\ Host(request) = API_DOMAIN
    /\ WellFormedBearer(request.authorization)

C13_BrowserClosedOnExit ==
    /\ apc \in {"exit", "done"} => browser # "open"
    /\ outcome.kind # "none" => browser # "open"
    /\ (apc \in {"exit", "done"} /\ browser = "none") =>
          (pending = PlaywrightError /\ ~listener)

C13_Witness ==
    /\ apc = "done"
    /\ browser = "closed"
    /\ outcome = Raise(PlaywrightError)
    /\ nav = "none"
    /\ ~listener

\* every call ends: each await of the coroutine is bounded
AcquireTerminates == (apc = "launch") ~> (apc = "done")

Rank(p) ==
    CASE p = "idle" -> 0
      [] p \in {"launch", "new_context", "new_page"} -> 1
      [] p = "goto" -> 2
      [] p = "wait" -> 3
      [] OTHER -> 4

\* C20: the acquirer goes from each state to the next one, or to the end
\* with a failure; handle_request is attached whenever the page navigates
\* or is waited on, and every request the page has sent has been passed to
\* it, in order
C20_OrderedAndNoneMissed ==
    [][ /\ \/ Rank(apc') = Rank(apc)
           \/ Rank(apc') = Rank(apc) + 1
           \/ Rank(apc') = 4 /\ pending' # NoError
        /\ outcome'.kind = "return" => Rank(apc) = 4 /\ nav \in {"ok", "TimeoutError"}
        /\ apc' \in {"goto", "wait"} => listener'
        /\ observed' = emitted' ]_vars

C20_Witness ==
    /\ apc = "goto"
    /\ listener
    /\ Len(emitted) >= 2
    /\ observed = emitted
    /\ Truthy(captured_token)

(***************************************************************************)
(* Frame of the cache functions                                            *)
(***************************************************************************)
\* the step is one of actor p inside _save_to_cache for key k
SaveStep(p, k) ==
    /\ <<pc[p], pos[p]>> # <<pc'[p], pos'[p]>>
    /\ \/ pc'[p] = "writing" /\ body'[p] = k
       \/ pc[p] = "writing" /\ pc'[p] = "idle" /\ body[p] = k

\* the step is one of _load_file_from_cache
LoadStep ==
    \/ result'.kind # "none"
    \/ \E p \in Procs : pc[p] = "reading" \/ pc'[p] = "reading"

\* a save for a key of K leaves the file of every other key of K as it is, a
\* load leaves every file as it is, and the keys of K have files of their own
Frame(K) ==
    /\ \A p \in Procs, k \in K :
          SaveStep(p, k) =>
             \A other \in K \ {k} :
                fs'[cached_file(other)] = fs[cached_file(other)]
    /\ LoadStep => fs' = fs
    /\ \A k1, k2 \in K : k1 # k2 => cached_file(k1) # cached_file(k2)

\* the keys without a path separator
PlainKeys == { k \in AllKeys : \A i \in 1..Len(KeyText(k)) : KeyText(k)[i] # "/" }

\* C19 as stated: for all keys, _save_to_cache(k, doc) leaves the entry of
\* every other key unchanged, _load_file_from_cache changes no file, and
\* distinct keys have distinct files
C19_OwnEntryOnly == [][Frame(AllKeys)]_vars

\* C19 for keys without a path separator: a save leaves the entry of every
\* other such key unchanged, a load changes no file, and distinct such keys
\* have distinct files
C19_OwnEntryOnlyPlainKeys == [][Frame(PlainKeys)]_vars

C19_Witness ==
    /\ pc["p1"] = "idle"
    /\ fs[cached_file("fixtures")].exists
    /\ fs[cached_file("races")].exists
    /\ fs[cached_file("fixtures")].content = dumps(<<>>)
    /\ fs[cached_file("races")].content # dumps(<<>>)
    /\ result.kind = "doc"

(***************************************************************************)
(* Properties of the authenticated fetch                                   *)
(***************************************************************************)
\* the fetch has ended
FetchEnded == fpc = "idle" /\ fout.kind # "none"

RetryableFailure(status) ==
    status \in {TransportError, 429} \/ status \in 500..599

====
